---- MODULE Spec2Model ----
(***************************************************************************)
(* Replication dynamics engine (simulate_replication_dynamics) of          *)
(* streamlit_app.py / replication_dynamics.py.                             *)
(*                                                                         *)
(* The engine computes in numpy float64.  The arithmetic is modelled as    *)
(* IEEE-754 binary64 with round-to-nearest-even: a number is a sign, a     *)
(* binary exponent and a 53-bit significand held as little-endian limbs    *)
(* (TLC integers are 32 bits wide).  Every operation computes the exact    *)
(* result on the limbs and rounds it once.  Only normal numbers and zero   *)
(* are represented: with the inputs explored here every nonzero value has  *)
(* a magnitude between 2^-120 and 2^6, far inside the normal range, and no *)
(* negative zero arises (shares are positive, a difference of equal values *)
(* is +0.0).                                                               *)
(***************************************************************************)
EXTENDS Integers, Sequences, FiniteSets, TLC

(***************************************************************************)
(* Natural numbers of arbitrary size: little-endian sequences of limbs,    *)
(* no leading (high) zero limb; <<>> is 0.                                 *)
(***************************************************************************)
Base == 2^14
LimbBits == CHOOSE n \in 1..30 : 2^n = Base

Pow2(n) == 2^n

RECURSIVE BStrip(_)
BStrip(a) ==
  IF a = <<>> THEN a
  ELSE IF a[Len(a)] = 0 THEN BStrip(SubSeq(a, 1, Len(a) - 1)) ELSE a

Limb(a, i) == IF i >= 1 /\ i <= Len(a) THEN a[i] ELSE 0

Max2(x, y) == IF x >= y THEN x ELSE y
Min2(x, y) == IF x <= y THEN x ELSE y

RECURSIVE BAddFrom(_, _, _, _)
BAddFrom(a, b, i, c) ==
  IF i > Max2(Len(a), Len(b))
  THEN (IF c = 0 THEN <<>> ELSE <<c>>)
  ELSE LET s == Limb(a, i) + Limb(b, i) + c
       IN  <<s % Base>> \o BAddFrom(a, b, i + 1, s \div Base)

BAdd(a, b) == BAddFrom(a, b, 1, 0)

\* a - b for a >= b
RECURSIVE BSubFrom(_, _, _, _)
BSubFrom(a, b, i, c) ==
  IF i > Len(a) THEN <<>>
  ELSE LET s == Limb(a, i) - Limb(b, i) - c
       IN  IF s < 0 THEN <<s + Base>> \o BSubFrom(a, b, i + 1, 1)
                    ELSE <<s>> \o BSubFrom(a, b, i + 1, 0)

BSub(a, b) == BStrip(BSubFrom(a, b, 1, 0))

\* -1, 0, 1 as a < b, a = b, a > b
RECURSIVE BCmpFrom(_, _, _)
BCmpFrom(a, b, i) ==
  IF i = 0 THEN 0
  ELSE IF a[i] < b[i] THEN -1
  ELSE IF a[i] > b[i] THEN 1
  ELSE BCmpFrom(a, b, i - 1)

BCmp(a, b) ==
  IF Len(a) < Len(b) THEN -1
  ELSE IF Len(a) > Len(b) THEN 1
  ELSE BCmpFrom(a, b, Len(a))

RECURSIVE BColumn(_, _, _, _)
BColumn(a, b, k, i) ==
  IF i > Min2(k, Len(a)) THEN 0
  ELSE (IF k + 1 - i <= Len(b) THEN a[i] * b[k + 1 - i] ELSE 0)
       + BColumn(a, b, k, i + 1)

RECURSIVE BMulFrom(_, _, _, _)
BMulFrom(a, b, k, c) ==
  IF k > Len(a) + Len(b) - 1
  THEN (IF c = 0 THEN <<>> ELSE <<c>>)
  ELSE LET s == BColumn(a, b, k, 1) + c
       IN  <<s % Base>> \o BMulFrom(a, b, k + 1, s \div Base)

BMul(a, b) == IF a = <<>> \/ b = <<>> THEN <<>> ELSE BMulFrom(a, b, 1, 0)

\* a * 2^n
BShl(a, n) ==
  IF a = <<>> THEN a
  ELSE LET q == n \div LimbBits
           r == n % LimbBits
           lo == Pow2(LimbBits - r)
           shifted == [i \in 1..(Len(a) + 1) |->
                         (Limb(a, i) % lo) * Pow2(r) + (Limb(a, i - 1) \div lo)]
       IN  [i \in 1..q |-> 0] \o BStrip(shifted)

\* floor(a / 2^n)
BShr(a, n) ==
  LET q == n \div LimbBits
      r == n % LimbBits
  IN  IF q >= Len(a) THEN <<>>
      ELSE BStrip([i \in 1..(Len(a) - q) |->
                     (a[i + q] \div Pow2(r))
                     + (Limb(a, i + q + 1) % Pow2(r)) * Pow2(LimbBits - r)])

\* bit k of a (bit 0 is the lowest)
BBit(a, k) == (Limb(a, (k \div LimbBits) + 1) \div Pow2(k % LimbBits)) % 2

\* the n lowest bits of a are all zero
BLowZero(a, n) ==
  /\ \A i \in 1..Min2(n \div LimbBits, Len(a)) : a[i] = 0
  /\ Limb(a, (n \div LimbBits) + 1) % Pow2(n % LimbBits) = 0

RECURSIVE IntBits(_)
IntBits(x) == IF x = 0 THEN 0 ELSE 1 + IntBits(x \div 2)

BBitLen(a) == IF a = <<>> THEN 0 ELSE LimbBits * (Len(a) - 1) + IntBits(a[Len(a)])

RECURSIVE BFromNat(_)
BFromNat(n) == IF n = 0 THEN <<>> ELSE <<n % Base>> \o BFromNat(n \div Base)

(***************************************************************************)
(* binary64 values: [sgn, exp, man] is sgn * man * 2^exp with              *)
(* 2^52 <= man < 2^53; zero is [0, 0, <<>>].                               *)
(***************************************************************************)
Precision == 53

Zero == [sgn |-> 0, exp |-> 0, man |-> <<>>]

\* The result of a division by zero (nan or inf); it is never operated on:
\* no divisor is zero in any reachable state.
NaN == [sgn |-> 0, exp |-> 1, man |-> <<>>]

\* The exact value s * n * 2^e (plus a positive remainder below one unit of n
\* when sticky), rounded to nearest, ties to even.
Round(s, n, e, sticky) ==
  IF n = <<>> \/ s = 0 THEN Zero
  ELSE LET len == BBitLen(n)
       IN  IF len <= Precision
           THEN [sgn |-> s, exp |-> e - (Precision - len),
                 man |-> BShl(n, Precision - len)]
           ELSE LET sh == len - Precision
                    q == BShr(n, sh)
                    half == BBit(n, sh - 1) = 1
                    rest == sticky \/ ~BLowZero(n, sh - 1)
                    up == half /\ (rest \/ BBit(q, 0) = 1)
                    m == IF up THEN BAdd(q, <<1>>) ELSE q
                IN  IF BBitLen(m) > Precision
                    THEN [sgn |-> s, exp |-> e + sh + 1, man |-> BShr(m, 1)]
                    ELSE [sgn |-> s, exp |-> e + sh, man |-> m]

FromInt(k) ==
  IF k = 0 THEN Zero
  ELSE Round(IF k < 0 THEN -1 ELSE 1, BFromNat(IF k < 0 THEN -k ELSE k), 0, FALSE)

FNeg(x) == [x EXCEPT !.sgn = -x.sgn]

FMul(x, y) ==
  IF x.sgn = 0 \/ y.sgn = 0 THEN Zero
  ELSE Round(x.sgn * y.sgn, BMul(x.man, y.man), x.exp + y.exp, FALSE)

\* magnitude comparison of two nonzero values: -1, 0, 1
MagCmp(x, y) ==
  IF x.exp < y.exp THEN -1
  ELSE IF x.exp > y.exp THEN 1
  ELSE BCmp(x.man, y.man)

FAdd(x, y) ==
  IF x.sgn = 0 THEN y
  ELSE IF y.sgn = 0 THEN x
  ELSE IF x.exp - y.exp > Precision + 2 THEN x
  ELSE IF y.exp - x.exp > Precision + 2 THEN y
  ELSE LET e == Min2(x.exp, y.exp)
           nx == BShl(x.man, x.exp - e)
           ny == BShl(y.man, y.exp - e)
       IN  IF x.sgn = y.sgn THEN Round(x.sgn, BAdd(nx, ny), e, FALSE)
           ELSE LET c == BCmp(nx, ny)
                IN  IF c = 0 THEN Zero
                    ELSE IF c > 0 THEN Round(x.sgn, BSub(nx, ny), e, FALSE)
                    ELSE Round(y.sgn, BSub(ny, nx), e, FALSE)

FSub(x, y) == FAdd(x, FNeg(y))

\* Long division, one limb of the quotient at a time: for r < d,
\* <<q + floor(r * 2^k / d), the remainder>> with q the bits found so far.
RECURSIVE DivLimb(_, _, _, _)
DivLimb(r, d, k, q) ==
  IF k = 0 THEN <<q, r>>
  ELSE LET r2 == BShl(r, 1)
       IN  IF BCmp(r2, d) >= 0
           THEN DivLimb(BSub(r2, d), d, k - 1, 2 * q + 1)
           ELSE DivLimb(r2, d, k - 1, 2 * q)

\* x / y for y nonzero: four quotient limbs below the leading bit, the
\* remainder as the sticky bit.
FDiv(x, y) ==
  IF y.sgn = 0 THEN NaN
  ELSE IF x.sgn = 0 THEN Zero
  ELSE LET ge == BCmp(x.man, y.man) >= 0
           d == y.man
           c1 == DivLimb(IF ge THEN BSub(x.man, d) ELSE x.man, d, LimbBits, 0)
           c2 == DivLimb(c1[2], d, LimbBits, 0)
           c3 == DivLimb(c2[2], d, LimbBits, 0)
           c4 == DivLimb(c3[2], d, LimbBits, 0)
           q == BStrip(<<c4[1], c3[1], c2[1], c1[1], IF ge THEN 1 ELSE 0>>)
       IN  Round(x.sgn * y.sgn, q, x.exp - y.exp - 4 * LimbBits, c4[2] # <<>>)

FLt(x, y) ==
  IF x.sgn # y.sgn THEN x.sgn < y.sgn
  ELSE IF x.sgn = 0 THEN FALSE
  ELSE IF x.sgn > 0 THEN MagCmp(x, y) < 0
  ELSE MagCmp(x, y) > 0

FLe(x, y) == ~FLt(y, x)

\* n / d as the interpreter computes the literal or the quotient (-0.5, 2/3)
Rat(n, d) == IF d = 1 THEN FromInt(n) ELSE FDiv(FromInt(n), FromInt(d))

One == FromInt(1)

(***************************************************************************)
(* The strategy set and the default payoff matrix.                         *)
(***************************************************************************)
automatons8 ==
  <<"DOVE", "HAWK", "GRIM", "TIT-FOR-TAT", "TAT-FOR-TIT",
    "TWEEDLEDUM", "TWEEDLEDEE", "TWEETYPIE">>

\* The rows of the default table, entries as <<numerator, denominator>>
DefaultRows ==
  <<  <<<<1,1>>,  <<-1,2>>, <<1,1>>,  <<1,1>>, <<1,1>>, <<1,1>>, <<1,1>>, <<-1,2>> >>,
      <<<<3,1>>,  <<0,1>>,  <<0,1>>,  <<0,1>>, <<3,2>>, <<3,2>>, <<3,2>>, <<3,1>>  >>,
      <<<<2,1>>,  <<0,1>>,  <<2,1>>,  <<2,1>>, <<0,1>>, <<2,1>>, <<2,1>>, <<-1,1>> >>,
      <<<<2,1>>,  <<0,1>>,  <<2,1>>,  <<2,1>>, <<2,3>>, <<2,1>>, <<2,1>>, <<2,1>>  >>,
      <<<<-1,2>>, <<3,4>>,  <<0,1>>,  <<2,3>>, <<2,1>>, <<2,1>>, <<2,1>>, <<2,1>>  >>,
      <<<<2,1>>,  <<3,4>>,  <<2,1>>,  <<2,1>>, <<2,1>>, <<2,1>>, <<2,1>>, <<2,1>>  >>,
      <<<<2,1>>,  <<3,4>>,  <<2,1>>,  <<2,1>>, <<2,1>>, <<2,1>>, <<2,1>>, <<2,1>>  >>,
      <<<<-1,2>>, <<3,1>>,  <<-1,1>>, <<2,1>>, <<2,1>>, <<2,1>>, <<2,1>>, <<2,1>>  >>  >>

\* The mapping strategy -> opponent -> payoff with the given rows
MatrixOf(names, rows) ==
  [a \in {names[i] : i \in 1..Len(names)} |->
     [b \in {names[j] : j \in 1..Len(names)} |->
        LET i == CHOOSE i \in 1..Len(names) : names[i] = a
            j == CHOOSE j \in 1..Len(names) : names[j] = b
        IN  Rat(rows[i][j][1], rows[i][j][2])]]

DefaultPayoffMatrix == MatrixOf(automatons8, DefaultRows)

(***************************************************************************)
(* The steps of one period.  Vectors are sequences indexed 1..K in the     *)
(* order of automatons (the code's indices 0..K-1).                        *)
(***************************************************************************)
NameSet(names) == {names[i] : i \in 1..Len(names)}

\* payoff_matrix[a][b] does not raise KeyError
HasEntry(pm, a, b) == a \in DOMAIN pm /\ b \in DOMAIN pm[a]

\* How many lookups payoff_matrix[automaton_i][automaton_j] of the nested loops
\* succeed before the first one that raises (K*K when none does)
Computed(names, pm) ==
  LET k == Len(names)
      missing == {n \in 0..(k * k - 1) :
                    ~HasEntry(pm, names[(n \div k) + 1], names[(n % k) + 1])}
  IN  IF missing = {} THEN k * k
      ELSE CHOOSE n \in missing : \A m \in missing : n <= m

\* A plausible slip: a strategy does not meet itself
PairwiseNoSelf(names, pm, p, n) ==
  LET k == Len(names)
  IN  [i \in 1..k |->
        [j \in 1..k |->
           IF (i - 1) * k + (j - 1) < n /\ i # j
           THEN FMul(pm[names[i]][names[j]], p[j])
           ELSE Zero]]

\* pairwise_payoffs_period after the first n lookups (0.0 where not yet stored)
PairwisePayoffs(names, pm, p, n) ==
  LET k == Len(names)
  IN  [i \in 1..k |->
        [j \in 1..k |->
           IF (i - 1) * k + (j - 1) < n
           THEN FMul(pm[names[i]][names[j]], p[j])
           ELSE Zero]]

\* v[1] + ... + v[n] accumulated from 0.0 in index order
RECURSIVE SumSeq(_, _)
SumSeq(v, n) == IF n = 0 THEN Zero ELSE FAdd(SumSeq(v, n - 1), v[n])

\* payoffs[i] += pairwise_payoff over the stored pairwise payoffs
ExpectedPayoffs(pairwise) ==
  [i \in 1..Len(pairwise) |-> SumSeq(pairwise[i], Len(pairwise[i]))]

\* np.argmax: the first index of a maximal entry
ArgMax(v) ==
  CHOOSE i \in 1..Len(v) :
    /\ \A j \in 1..Len(v) : FLe(v[j], v[i])
    /\ \A j \in 1..(i - 1) : FLt(v[j], v[i])

NpMin(v) ==
  LET i == CHOOSE i \in 1..Len(v) : \A j \in 1..Len(v) : FLe(v[i], v[j])
  IN  v[i]

\* Plausible slips: the shift applied whatever the sign of the minimum; the
\* floor of 1 left out
AdjustedAlwaysShift(pay) ==
  [i \in 1..Len(pay) |-> FAdd(FSub(pay[i], NpMin(pay)), One)]

AdjustedNoFloor(pay) ==
  IF FLt(NpMin(pay), Zero)
  THEN [i \in 1..Len(pay) |-> FSub(pay[i], NpMin(pay))]
  ELSE pay

Adjusted(pay) ==
  LET min_payoff == NpMin(pay)
  IN  IF FLt(min_payoff, Zero)
      THEN [i \in 1..Len(pay) |-> FAdd(FSub(pay[i], min_payoff), One)]
      ELSE [i \in 1..Len(pay) |-> FAdd(pay[i], One)]

\* A plausible slip: the multipliers applied in reverse index order
ReweightedSwapped(p, adj) == [i \in 1..Len(p) |-> FMul(p[i], adj[Len(p) + 1 - i])]

Reweighted(p, adj) == [i \in 1..Len(p) |-> FMul(p[i], adj[i])]

\* np.sum of a contiguous float64 vector of at most 128 entries: fewer than 8
\* are added in index order; otherwise 8 strided accumulators are combined
\* pairwise and the remaining entries added in order.
RECURSIVE Strided(_, _, _)
Strided(v, k, blocks) ==
  IF blocks = 1 THEN v[k]
  ELSE FAdd(Strided(v, k, blocks - 1), v[k + 8 * (blocks - 1)])

RECURSIVE AddRest(_, _, _)
AddRest(v, res, i) ==
  IF i > Len(v) THEN res ELSE AddRest(v, FAdd(res, v[i]), i + 1)

NpSum(v) ==
  IF Len(v) < 8 THEN SumSeq(v, Len(v))
  ELSE LET blocks == Len(v) \div 8
           r(k) == Strided(v, k, blocks)
       IN  AddRest(v,
                   FAdd(FAdd(FAdd(r(1), r(2)), FAdd(r(3), r(4))),
                        FAdd(FAdd(r(5), r(6)), FAdd(r(7), r(8)))),
                   8 * blocks + 1)

\* A plausible slip: the shares scaled by their largest value, not their sum
NormalizedByMax(q, total) == [i \in 1..Len(q) |-> FDiv(q[i], q[ArgMax(q)])]

\* A plausible slip: the renormalization left out
NormalizedNoDiv(q, total) == q

Normalized(q, total) == [i \in 1..Len(q) |-> FDiv(q[i], total)]

\* np.ones(n) / n
Uniform(k) == [i \in 1..k |-> FDiv(One, FromInt(k))]

\* Plausible slips: one iteration too many; the sign of num_periods ignored
LoopContinuesInclusive(done, n) == done <= n

LoopContinuesAbs(done, n) == done < (IF n < 0 THEN -n ELSE n)

\* for period in range(num_periods): another iteration follows
LoopContinues(done, n) == done < n

(***************************************************************************)
(* The inputs explored.                                                    *)
(***************************************************************************)
MaxPeriods == 2       \* num_periods ranges over -1..MaxPeriods for every matrix
LongPeriods == 40     \* and is LongPeriods for the scenario matrices
MaxCalls == 2         \* calls made one after the other

SmallNames == <<"A", "B">>

StrategySets == {SmallNames, automatons8}

PayoffValues == {FromInt(-2), Zero, Rat(2, 3), FromInt(3)}

Matrix2(aa, ab, ba, bb) ==
  [a \in {"A", "B"} |->
     IF a = "A" THEN [b \in {"A", "B"} |-> IF b = "A" THEN aa ELSE ab]
                ELSE [b \in {"A", "B"} |-> IF b = "A" THEN ba ELSE bb]]

SmallMatrices ==
  {Matrix2(aa, ab, ba, bb) : aa \in PayoffValues, ab \in PayoffValues,
                             ba \in PayoffValues, bb \in PayoffValues}

Dominance == Matrix2(FromInt(3), FromInt(3), Zero, Zero)
AllEqual == Matrix2(One, One, One, One)
SelfReinforcing == Matrix2(FromInt(2), Zero, Zero, FromInt(2))
AntiCoordination == Matrix2(FromInt(-1), FromInt(2), FromInt(3), FromInt(-1))

ScenarioMatrices == {Dominance, AllEqual, SelfReinforcing, AntiCoordination}

\* pm without the entry for (a, b); pm without the row of a
WithoutEntry(pm, a, b) ==
  [x \in DOMAIN pm |->
     IF x = a THEN [y \in (DOMAIN pm[x]) \ {b} |-> pm[x][y]] ELSE pm[x]]

WithoutRow(pm, a) == [x \in (DOMAIN pm) \ {a} |-> pm[x]]

Incomplete(names, pm) ==
  {WithoutEntry(pm, a, b) : a \in NameSet(names), b \in NameSet(names)}
    \cup {WithoutRow(pm, a) : a \in NameSet(names)}

\* A matrix edited in the sidebar form: one entry of the default changed
Edited == [DefaultPayoffMatrix EXCEPT !["DOVE"]["HAWK"] = Rat(1, 2)]

\* The arguments of a call: <<num_periods, <<>> >> passes no matrix,
\* <<num_periods, <<m>> >> passes m.
SmallInputs ==
  ((-1..MaxPeriods) \X
     {<<m>> : m \in SmallMatrices \cup ScenarioMatrices
                       \cup Incomplete(SmallNames, Dominance)})
    \cup ({LongPeriods} \X {<<m>> : m \in ScenarioMatrices})

BigInputs ==
  (-1..MaxPeriods) \X
     ({<<>>, <<Edited>>, <<WithoutEntry(DefaultPayoffMatrix, "HAWK", "GRIM")>>})

Inputs(names) == IF names = SmallNames THEN SmallInputs ELSE BigInputs

(***************************************************************************)
(* State: the module globals, the arguments and locals of the call in      *)
(* progress, and what the call gave back.                                  *)
(***************************************************************************)
VARIABLES
  automatons,                \* the strategy list (fixed)
  calls,                     \* calls made so far
  default_payoff_matrix,     \* the module's default table
  passed,                    \* the payoff_matrix argument as the caller passed it
  payoff_matrix,             \* the matrix the call reads
  num_periods,
  probabilities,
  history,
  payoff_history,
  strategy_history,
  payoff_matrices,
  pairwise_payoffs_history,
  period,                    \* iterations of the loop completed
  pairwise_payoffs_period,
  payoffs,
  payoffs_adjusted,
  total,                     \* np.sum(probabilities) before the division
  computed,                  \* pairwise payoffs computed by the call so far
  pc,                        \* "idle", "loop", "returned", "raised"
  error,
  result

vars == <<automatons, calls, default_payoff_matrix, passed, payoff_matrix, num_periods,
          probabilities, history, payoff_history, strategy_history,
          payoff_matrices, pairwise_payoffs_history, period, pairwise_payoffs_period,
          payoffs, payoffs_adjusted, total, computed, pc, error, result>>

globals == <<automatons, default_payoff_matrix>>

NoCall ==
  /\ passed = <<>>
  /\ payoff_matrix = <<>>
  /\ num_periods = 0
  /\ probabilities = <<>>
  /\ history = <<>>
  /\ payoff_history = <<>>
  /\ strategy_history = <<>>
  /\ payoff_matrices = <<>>
  /\ pairwise_payoffs_history = <<>>
  /\ period = 0
  /\ pairwise_payoffs_period = <<>>
  /\ payoffs = <<>>
  /\ payoffs_adjusted = <<>>
  /\ total = Zero
  /\ computed = 0
  /\ pc = "idle"
  /\ error = "none"
  /\ result = <<>>

Init ==
  /\ automatons \in StrategySets
  /\ calls = 0
  /\ default_payoff_matrix = DefaultPayoffMatrix
  /\ NoCall

Index(names, a) == CHOOSE i \in 1..Len(names) : names[i] = a

\* A plausible slip: the best response computed from the share-weighted payoffs
BestOpponentByShare(names, pm, a) ==
  names[ArgMax([j \in 1..Len(names) |-> FMul(pm[a][names[j]], probabilities[j])])]

\* automatons[np.argmax([payoff_matrix[automaton][opp] for opp in automatons])]
BestOpponent(names, pm, a) ==
  names[ArgMax([j \in 1..Len(names) |-> pm[a][names[j]]])]

PeriodStrategies(names, pm) ==
  [a \in NameSet(names) |-> BestOpponent(names, pm, a)]

\* simulate_replication_dynamics(n, arg[1]), or (n) when arg is empty: the
\* statements before the loop
Call(n, arg) ==
  /\ pc = "idle"
  /\ calls < MaxCalls
  /\ calls' = calls + 1
  /\ passed' = arg
  /\ payoff_matrix' = IF arg = <<>> THEN default_payoff_matrix ELSE arg[1]
  /\ num_periods' = n
  /\ probabilities' = Uniform(Len(automatons))
  /\ history' = <<Uniform(Len(automatons))>>
  /\ payoff_history' = [a \in NameSet(automatons) |-> <<>>]
  /\ strategy_history' = <<>>
  /\ payoff_matrices' = <<>>
  /\ pairwise_payoffs_history' = <<>>
  /\ period' = 0
  /\ pairwise_payoffs_period' = <<>>
  /\ payoffs' = <<>>
  /\ payoffs_adjusted' = <<>>
  /\ total' = Zero
  /\ computed' = 0
  /\ pc' = "loop"
  /\ error' = "none"
  /\ result' = <<>>
  /\ UNCHANGED globals

\* One pass through the loop body, leaving the matrices as pm2 (the matrix the
\* call reads) and dpm2 (the default table)
PeriodEffect(pm2, dpm2) ==
  /\ pc = "loop"
  /\ LoopContinues(period, num_periods)
  /\ computed' = computed + Computed(automatons, payoff_matrix)
  /\ pairwise_payoffs_period' =
       PairwisePayoffs(automatons, payoff_matrix, probabilities,
                       computed' - computed)
  /\ payoffs' = ExpectedPayoffs(pairwise_payoffs_period')
  /\ IF computed' - computed < Len(automatons) * Len(automatons)
     THEN \* a lookup raised KeyError inside the nested loops
          /\ pc' = "raised"
          /\ error' = "KeyError"
          /\ UNCHANGED <<probabilities, history, payoff_history,
                         strategy_history, payoff_matrices,
                         pairwise_payoffs_history, period,
                         payoffs_adjusted, total>>
     ELSE /\ pairwise_payoffs_history' =
               Append(pairwise_payoffs_history, pairwise_payoffs_period')
          /\ payoff_matrices' =
               Append(payoff_matrices, [column |-> period, payoffs |-> payoffs'])
          /\ strategy_history' =
               Append(strategy_history,
                      PeriodStrategies(automatons, payoff_matrix))
          /\ payoff_history' =
               [a \in NameSet(automatons) |->
                  Append(payoff_history[a], payoffs'[Index(automatons, a)])]
          /\ payoffs_adjusted' = Adjusted(payoffs')
          /\ total' = NpSum(Reweighted(probabilities, payoffs_adjusted'))
          /\ probabilities' =
               Normalized(Reweighted(probabilities, payoffs_adjusted'), total')
          /\ history' = Append(history, probabilities')
          /\ period' = period + 1
          /\ UNCHANGED <<pc, error>>
  /\ payoff_matrix' = pm2
  /\ default_payoff_matrix' = dpm2
  /\ UNCHANGED <<automatons, calls, passed, num_periods, result>>

\* A plausible slip: the pairwise payoff stored into the matrix it was read from
\* (which is the default table itself when no matrix was passed)
Clobbered(pm) ==
  [a \in DOMAIN pm |->
     [b \in DOMAIN pm[a] |->
        IF a \in NameSet(automatons) /\ b \in NameSet(automatons)
        THEN FMul(pm[a][b], probabilities[Index(automatons, b)])
        ELSE pm[a][b]]]

PeriodClobber ==
  PeriodEffect(Clobbered(payoff_matrix),
               IF passed = <<>> THEN Clobbered(default_payoff_matrix)
                                ELSE default_payoff_matrix)

Period == PeriodEffect(payoff_matrix, default_payoff_matrix)

\* The loop is exhausted: return the five series
Return ==
  /\ pc = "loop"
  /\ ~LoopContinues(period, num_periods)
  /\ pc' = "returned"
  /\ result' = <<history, payoff_history, strategy_history, payoff_matrices,
                 pairwise_payoffs_history>>
  /\ UNCHANGED <<automatons, calls, default_payoff_matrix, passed,
                 payoff_matrix, num_periods, probabilities, history, payoff_history,
                 strategy_history, payoff_matrices, pairwise_payoffs_history,
                 period, pairwise_payoffs_period, payoffs, payoffs_adjusted,
                 total, computed, error>>

\* The call is over and its frame gone; the globals stay for the next call
Release ==
  /\ pc \in {"returned", "raised"}
  /\ passed' = <<>>
  /\ payoff_matrix' = <<>>
  /\ num_periods' = 0
  /\ probabilities' = <<>>
  /\ history' = <<>>
  /\ payoff_history' = <<>>
  /\ strategy_history' = <<>>
  /\ payoff_matrices' = <<>>
  /\ pairwise_payoffs_history' = <<>>
  /\ period' = 0
  /\ pairwise_payoffs_period' = <<>>
  /\ payoffs' = <<>>
  /\ payoffs_adjusted' = <<>>
  /\ total' = Zero
  /\ computed' = 0
  /\ pc' = "idle"
  /\ error' = "none"
  /\ result' = <<>>
  /\ UNCHANGED <<globals, calls>>

Run == \E inp \in Inputs(automatons) : Call(inp[1], inp[2])

Next == Run \/ Period \/ Return \/ Release

Spec == Init /\ [][Next]_vars

(***************************************************************************)
(* The claims.                                                             *)
(***************************************************************************)
Complete(names, pm) ==
  \A a \in NameSet(names), b \in NameSet(names) : HasEntry(pm, a, b)

InCall == pc \in {"loop", "returned", "raised"}

FAbs(x) == [x EXCEPT !.sgn = IF x.sgn = 0 THEN 0 ELSE 1]

Tolerance == Rat(1, 1000000000)

SumsToOne(v) == FLe(FAbs(FSub(SumSeq(v, Len(v)), One)), Tolerance)

\* C1: every vector of the history (the initial one and the one appended by
\* each period) has all entries >= 0 and entries that sum to 1, to within the
\* 1e-9 of the sentence the claim comes from.
C1_HistoryIsDistribution ==
  \A t \in 1..Len(history) :
    /\ \A i \in 1..Len(history[t]) : FLe(Zero, history[t][i])
    /\ SumsToOne(history[t])

\* a call with a complete matrix has returned after at least two periods that
\* moved the shares
C1_Witness ==
  /\ pc = "returned"
  /\ Complete(automatons, payoff_matrix)
  /\ Len(history) >= 3
  /\ history[2] # history[1]
  /\ history[3] # history[2]

\* The recurrence of C2, written from its statement: pi, m, adj and the
\* quotient, for a complete matrix pm and a share vector p
RefPi(names, pm, p, i) ==
  SumSeq([j \in 1..Len(names) |-> FMul(pm[names[i]][names[j]], p[j])], Len(names))

RefNext(names, pm, p) ==
  LET K == Len(names)
      pi == [i \in 1..K |-> RefPi(names, pm, p, i)]
      m == NpMin(pi)
      adj == [i \in 1..K |->
                IF FLt(m, Zero) THEN FAdd(FSub(pi[i], m), One)
                                ELSE FAdd(pi[i], One)]
      den == NpSum([k \in 1..K |-> FMul(p[k], adj[k])])
  IN  [i \in 1..K |-> FDiv(FMul(p[i], adj[i]), den)]

\* C2: the returned history starts at the uniform vector [1/K]*K and each
\* later vector follows from the one before it by the reference recurrence.
C2_HistoryFollowsRecurrence ==
  pc = "returned" =>
    /\ Len(result[1]) >= 1
    /\ result[1][1] = [i \in 1..Len(automatons) |-> Rat(1, Len(automatons))]
    /\ \A t \in 1..(Len(result[1]) - 1) :
         result[1][t + 1] = RefNext(automatons, payoff_matrix, result[1][t])

\* a returned call whose minimum expected payoff was negative in one period
\* and positive in another
C2_Witness ==
  /\ pc = "returned"
  /\ Len(history) >= 3
  /\ \E t \in 1..Len(payoff_matrices) : FLt(NpMin(payoff_matrices[t].payoffs), Zero)
  /\ \E t \in 1..Len(payoff_matrices) : FLt(Zero, NpMin(payoff_matrices[t].payoffs))

\* C3: a call with num_periods >= 1 returns after exactly num_periods passes of
\* the loop, with num_periods + 1 vectors in the history and num_periods
\* payoffs recorded for every strategy.
C3_ExactlyNumPeriodsIterations ==
  (pc = "returned" /\ num_periods >= 1) =>
    /\ period = num_periods
    /\ Len(history) = num_periods + 1
    /\ Len(result[1]) = num_periods + 1
    /\ \A s \in NameSet(automatons) : Len(result[2][s]) = num_periods

C3_Witness == pc = "returned" /\ num_periods >= 3 /\ period = num_periods

\* C4: the payoff recorded for strategy s in period t is the row of s dotted
\* with the share vector before that period's update, over every opponent.
C4_PayoffFromSharesBeforeUpdate ==
  InCall =>
    \A s \in NameSet(automatons) :
      \A t \in 1..Len(payoff_history[s]) :
        payoff_history[s][t] =
          RefPi(automatons, payoff_matrix, history[t], Index(automatons, s))

\* a recorded payoff that differs from the one the updated shares would give,
\* for a strategy that earns from meeting itself
C4_Witness ==
  /\ pc = "returned"
  /\ \E s \in NameSet(automatons) :
       /\ Len(payoff_history[s]) >= 2
       /\ payoff_matrix[s][s] # Zero
       /\ payoff_history[s][2] #
            RefPi(automatons, payoff_matrix, history[3], Index(automatons, s))

\* C5: in every period every adjusted payoff is >= 1 and the sum the shares
\* are divided by is strictly positive, so no division by zero (the
\* NumericDivergence condition) occurs.
C5_AdjustedAtLeastOne ==
  (InCall /\ period >= 1) =>
    /\ \A i \in 1..Len(payoffs_adjusted) : FLe(One, payoffs_adjusted[i])
    /\ FLt(Zero, total)
    /\ \A i \in 1..Len(probabilities) : probabilities[i] # NaN

\* both branches have run: one period had a negative minimum payoff, another
\* a minimum that is not negative, and the latest multipliers include the floor
C5_Witness ==
  /\ InCall
  /\ period >= 2
  /\ \E t \in 1..Len(payoff_matrices) : FLt(NpMin(payoff_matrices[t].payoffs), Zero)
  /\ \E t \in 1..Len(payoff_matrices) : ~FLt(NpMin(payoff_matrices[t].payoffs), Zero)
  /\ \E i \in 1..Len(payoffs_adjusted) : payoffs_adjusted[i] = One

\* C6: when the matrix lacks an entry for some pair of strategies, the call
\* (here with a positive num_periods) fails before any computation starts:
\* no pairwise or expected payoff is computed, no period is executed and
\* nothing is returned.
C6_FailsBeforeAnyComputation ==
  (InCall /\ num_periods >= 1 /\ ~Complete(automatons, payoff_matrix)) =>
    /\ computed = 0
    /\ period = 0
    /\ pc # "returned"
    /\ result = <<>>

C8_MatrixUnchanged ==
  /\ default_payoff_matrix = DefaultPayoffMatrix
  /\ InCall =>
       payoff_matrix = IF passed = <<>> THEN DefaultPayoffMatrix ELSE passed[1]

\* a second call on the default table has returned after two periods
C8_Witness ==
  /\ pc = "returned"
  /\ calls = 2
  /\ passed = <<>>
  /\ automatons = automatons8
  /\ period >= 2

\* C9: the best-response opponent recorded for strategy a in any period is the
\* first opponent, in strategy order, with the largest entry in the row of a;
\* the record is the same in every period.
C9_BestResponseIsStatic ==
  \A t \in 1..Len(strategy_history) :
    /\ strategy_history[t] = strategy_history[1]
    /\ \A a \in NameSet(automatons) :
         LET j == Index(automatons, strategy_history[t][a])
             row == payoff_matrix[a]
         IN  /\ \A x \in 1..Len(automatons) :
                  FLe(row[automatons[x]], row[automatons[j]])
             /\ \A x \in 1..(j - 1) :
                  FLt(row[automatons[x]], row[automatons[j]])

\* two periods recorded, a row with its largest entry twice, and a strategy
\* whose best response by share-weighted payoff is another opponent
C9_Witness ==
  /\ Len(strategy_history) >= 2
  /\ \E a \in NameSet(automatons) :
       \E x \in 1..Len(automatons) :
         /\ automatons[x] # strategy_history[1][a]
         /\ payoff_matrix[a][automatons[x]] = payoff_matrix[a][strategy_history[1][a]]
  /\ \E a \in NameSet(automatons) :
       BestOpponentByShare(automatons, payoff_matrix, a) # strategy_history[2][a]

InDominance == InCall /\ automatons = SmallNames /\ passed = <<Dominance>>

\* C10: with A:{A:3,B:3}, B:{A:0,B:0}, in every period pi_A = 3, pi_B = 0,
\* adj_A = 4 and adj_B = 1; the share of A strictly increases from each vector
\* of the history to the next, and is strictly below 1 (that of B strictly
\* above 0) in every vector.
C10_DominantShareStrictlyIncreases ==
  InDominance =>
    /\ period >= 1 =>
         /\ payoffs = <<FromInt(3), Zero>>
         /\ payoffs_adjusted = <<FromInt(4), One>>
    /\ \A t \in 1..(Len(history) - 1) : FLt(history[t][1], history[t + 1][1])
    /\ \A t \in 1..Len(history) :
         FLt(history[t][1], One) /\ FLt(Zero, history[t][2])

\* one unit in the last place of 3 and of 4
Ulp == FMul(Rat(1, 2^26), Rat(1, 2^25))

\* the vector of the history, counted from 0, from which 1 - 4^-t rounds to 1
Saturation == (Precision + 1) \div 2

\* C10 as amended: pi_B = 0 and adj_B = 1 in every period, pi_A and adj_A are
\* 3 and 4 to within one unit in the last place; the share of A never
\* decreases and never exceeds 1, it strictly increases and is below 1 up to
\* history[26] and is 1.0 from history[27] on; the share of B is above 0 in
\* every vector.
C10_DominantShareSaturates ==
  InDominance =>
    /\ period >= 1 =>
         /\ payoffs[2] = Zero
         /\ payoffs_adjusted[2] = One
         /\ FLe(FAbs(FSub(payoffs[1], FromInt(3))), Ulp)
         /\ FLe(FAbs(FSub(payoffs_adjusted[1], FromInt(4))), Ulp)
    /\ \A t \in 1..(Len(history) - 1) :
         /\ FLe(history[t][1], history[t + 1][1])
         /\ t <= Saturation => FLt(history[t][1], history[t + 1][1])
    /\ \A t \in 1..Len(history) :
         /\ FLt(Zero, history[t][2])
         /\ t <= Saturation => FLt(history[t][1], One)
         /\ t > Saturation => history[t][1] = One

\* the run has passed the vector where the share of A reaches 1.0
C10_Witness ==
  /\ InDominance
  /\ pc = "returned"
  /\ Len(history) > Saturation + 2
  /\ history[Saturation + 2][1] = One

\* the expected payoffs of one period are all the same
AllSame(pay) == \A i \in 1..Len(pay) : pay[i] = pay[1]

\* C11: whenever all strategies have the same expected payoff in a period, the
\* update of that period leaves the share vector unchanged; with two
\* strategies and the all-ones matrix, or the matrix A:{A:2,B:0}, B:{A:0,B:2},
\* every vector of the history is [0.5, 0.5].
C11_EqualPayoffsLeaveSharesUnchanged ==
  /\ \A t \in 1..Len(payoff_matrices) :
       AllSame(payoff_matrices[t].payoffs) => history[t + 1] = history[t]
  /\ (InCall /\ automatons = SmallNames
        /\ passed \in {<<AllEqual>>, <<SelfReinforcing>>}) =>
       \A t \in 1..Len(history) : history[t] = <<Rat(1, 2), Rat(1, 2)>>

\* C11 as amended: when all strategies have the same expected payoff in a
\* period, the update changes no share by more than 1e-9, and leaves the
\* vector exactly unchanged when it is the uniform vector; in the two
\* scenarios every vector of the history is exactly [0.5, 0.5].
C11_EqualPayoffsKeepSharesWithinTolerance ==
  /\ \A t \in 1..Len(payoff_matrices) :
       AllSame(payoff_matrices[t].payoffs) =>
         /\ \A i \in 1..Len(history[t]) :
              FLe(FAbs(FSub(history[t + 1][i], history[t][i])), Tolerance)
         /\ history[t] = [i \in 1..Len(automatons) |-> Rat(1, Len(automatons))]
              => history[t + 1] = history[t]
  /\ (InCall /\ automatons = SmallNames
        /\ passed \in {<<AllEqual>>, <<SelfReinforcing>>}) =>
       \A t \in 1..Len(history) : history[t] = <<Rat(1, 2), Rat(1, 2)>>

\* a period with equal expected payoffs at a vector that is not uniform, whose
\* update moved the shares
C11_Witness ==
  /\ InCall
  /\ \E t \in 1..Len(payoff_matrices) :
       /\ AllSame(payoff_matrices[t].payoffs)
       /\ history[t][1] # history[t][2]
       /\ history[t + 1] # history[t]

IsMax(pay, i) == \A j \in 1..Len(pay) : FLe(pay[j], pay[i])
IsMin(pay, i) == \A j \in 1..Len(pay) : FLe(pay[i], pay[j])

====
